---- MODULE Spec2Model ----
(***************************************************************************)
(* Model of the job-scheduler daemon of cli.py: the ServerContext (workers *)
(* list, waitlist, reentrant lock, pickle snapshot), the Slave objects,    *)
(* the per-job supervisor threads (_process_waiter) and the command loop   *)
(* of start().                                                             *)
(*                                                                         *)
(* Data encoding.  A Python string is the sequence of its "="-separated    *)
(* parts ("A=1" is <<"A","1">>, "./job.sh" is <<"./job.sh">>), so that     *)
(* str.split("=") is the identity on the encoding.  A Python list or dict  *)
(* is a tagged record [t, v]: a list holds its elements, a dict its        *)
(* (key, value) pairs in insertion order.  None is the empty sequence and  *)
(* a present optional value a one-element sequence.                        *)
(***************************************************************************)
EXTENDS Integers, Sequences, FiniteSets, TLC

----------------------------------------------------------------------------
(* Bounds of the model *)

\* add_job commands accepted in one behaviour
MaxJobs == 3
\* commands read by the command loop, and restarts of the daemon, in one
\* behaviour
MaxCmds == 5
\* Slave objects constructed in one behaviour (add_slave and load_status)
MaxObj == 3

----------------------------------------------------------------------------
(* Python values *)

L(v) == [t |-> "list", v |-> v]
D(v) == [t |-> "dict", v |-> v]
\* a Slave rebuilt by __setstate__ has no attribute `envs`
NoAttr == [t |-> "noattr", v |-> <<>>]

Addrs == {"10.0.0.1", "10.0.0.2"}
JobArgs == {L(<< <<"./job.sh">> >>)}
JobEnvs == {L(<<>>), L(<< <<"JOB_ID", "x">> >>)}
SlaveEnvs == {L(<<>>), L(<< <<"A", "1">> >>)}
\* the add_slave commands issued: one worker without and one with env defaults
SlaveInputs == { <<"10.0.0.1", L(<<>>)>>, <<"10.0.0.2", L(<< <<"A", "1">> >>)>> }

ReservedNames == {"JOB_ID", "SLAVE_IP"}

\* iteration over a list yields its elements, over a dict its keys
Iter(x) == IF x.t = "dict" THEN [i \in 1..Len(x.v) |-> << x.v[i][1] >>] ELSE x.v

\* dict store envs_dict[k] = v: overwrite in place or insert at the end
DictSet(kv, k, v) ==
  IF \E i \in 1..Len(kv) : kv[i][1] = k
  THEN [i \in 1..Len(kv) |-> IF kv[i][1] = k THEN <<k, v>> ELSE kv[i]]
  ELSE Append(kv, <<k, v>>)

RECURSIVE ParseLoop(_, _)
ParseLoop(strs, acc) ==
  IF strs = <<>> THEN D(acc)
  ELSE LET s == Head(strs) IN
       \* k, v = env_str.split("=") raises unless exactly two parts; the
       \* reserved-name ValueError is raised inside the same try and the
       \* bare except replaces both by "Failed to parse ..."
       IF Len(s) # 2 \/ s[1] \in ReservedNames
       THEN [t |-> "error", v |-> << s >>]
       ELSE ParseLoop(Tail(strs), DictSet(acc, s[1], s[2]))

parse_key_values(envs) == ParseLoop(Iter(envs), <<>>)

ErrParse == "Failed to parse environment key-value pair"
ErrReserved == "Environment name is reserved."

----------------------------------------------------------------------------
(* State *)

VARIABLES
  slaves,         \* ctx.slaves: the list of Slave objects (object ids)
  job_waitlist,   \* ctx.job_waitlist: deque of (args, envs)
  obj,            \* heap of Slave objects, indexed by object id
  thr,            \* supervisor threads ever started, indexed by thread id
  lock,           \* owner of ctx.lock: "none" or "main"
  should_stop,    \* ctx.should_stop
  disk,           \* server_context.pkl: <<>> or <<snapshot>>
  alive,          \* pids of the job processes that exist
  m,              \* the command loop's thread: position and locals
  resp,           \* response to the last command
  file,           \* the JSON file written from the last `status` output
  h               \* history: what has happened so far

vars == <<slaves, job_waitlist, obj, thr, lock, should_stop, disk, alive, m,
          resp, file, h>>

Slave(ip, envs_dict) ==
  [ip |-> ip, envs |-> envs_dict, status |-> "idle", running_job |-> <<>>,
   process_waiter |-> 0, remove_after_finish |-> FALSE, shutdown_event |-> FALSE]

\* JobInfo.__init__(id, script, envs, pid, log_file); `job` is the
\* submission the run belongs to (history only)
JobInfo(id, script, envs, pid, log_file, job) ==
  [id |-> id, script |-> script, envs |-> envs, pid |-> pid,
   log_file |-> log_file, job |-> job]

\* Slave.__getstate__
GetState(s) ==
  [ip |-> s.ip, status |-> s.status, running_job |-> s.running_job,
   remove_after_finish |-> s.remove_after_finish]

\* pickle.dump((self.slaves, self.job_waitlist))
Pickle(sl, o, wl) == [slaves |-> [i \in 1..Len(sl) |-> GetState(o[sl[i]])], waitlist |-> wl]

\* Slave.__setstate__ followed by Slave.associate, as _load does
SetState(st) ==
  [ip |-> st.ip, envs |-> NoAttr, status |-> st.status,
   running_job |-> st.running_job, process_waiter |-> 0,
   remove_after_finish |-> st.remove_after_finish, shutdown_event |-> FALSE]

IdleMain == [pc |-> "idle", cmd |-> "none", ip |-> "", opt |-> "none", i |-> 0,
             new_list |-> <<>>, removed |-> FALSE, cur |-> 0, pid |-> 0,
             joinee |-> 0, envs |-> L(<<>>), src |-> <<>>, ret |-> 0]

\* the handler has returned and `resp` is being written to the reply pipe
ReplyMain == [IdleMain EXCEPT !.pc = "reply"]

NoResp == [kind |-> "none", text |-> "", ip |-> ""]
Msg(t) == [kind |-> "msg", text |-> t, ip |-> ""]
Err(t) == [kind |-> "err", text |-> t, ip |-> ""]

----------------------------------------------------------------------------
(* The operations of ServerContext and Slave that run to completion while  *)
(* the caller holds ctx.lock.  They work on a bundle C of the fields they  *)
(* read and write:                                                         *)
(*   slaves, wl, obj, thr, disk, alive  as the variables above             *)
(*   nrun   launches so far (the next job id and pid)                      *)
(*   exc    the exception propagating out, "" when none                    *)
(*   ret    the value of schedule's local `slave` (0 is None)              *)
(***************************************************************************)

\* ServerContext._save
Save(C) == [C EXCEPT !.disk = << Pickle(C.slaves, C.obj, C.wl) >>]

\* Slave.monitor: start a supervisor unless one is recorded
Monitor(C, o, proc) ==
  IF C.obj[o].running_job # <<>> /\ C.obj[o].process_waiter = 0
  THEN [C EXCEPT
          !.thr = Append(C.thr, [slave |-> o, pid |-> C.obj[o].running_job[1].pid,
                                 proc |-> proc, pc |-> "poll"]),
          !.obj[o].process_waiter = Len(C.thr) + 1]
  ELSE C

\* Slave.run(job_script, envs)
Run(C, o, job) ==
  IF C.obj[o].status # "idle" THEN C
  ELSE LET C1 == [C EXCEPT !.obj[o].status = "busy"]
           job_envs == parse_key_values(job.envs)
           n == C.nrun + 1
       IN IF job_envs.t = "error" THEN [C1 EXCEPT !.exc = ErrParse]
          ELSE IF C.obj[o].envs.t = "noattr" THEN [C1 EXCEPT !.exc = "AttributeError"]
          ELSE LET C2 == [C1 EXCEPT
                            !.nrun = n,
                            !.alive = C.alive \cup {n},
                            !.obj[o].running_job =
                               << JobInfo(n, job_envs, job.args, n, n, job.id) >>]
               IN Save(Monitor(C2, o, TRUE))

\* a deque that grows at the wrong end (deque.appendleft)
WaitlistAppendLeft(wl, job) == << job >> \o wl

\* deque.append / deque.popleft
WaitlistAppend(wl, job) == Append(wl, job)
WaitlistPopLeft(wl) == Tail(wl)

\* the first idle worker in list order, 0 when the scan finds none
FirstIdle(C) ==
  LET idle == {i \in 1..Len(C.slaves) : C.obj[C.slaves[i]].status = "idle"}
  IN IF idle = {} THEN 0
     ELSE C.slaves[CHOOSE i \in idle : \A k \in idle : i <= k]

\* ServerContext.schedule as a supervisor thread runs it, in one step
RECURSIVE schedule(_)
schedule(C) ==
  IF Len(C.wl) = 0 THEN C
  ELSE LET o == FirstIdle(C) IN
       IF o = 0
       THEN [C EXCEPT !.ret = IF Len(C.slaves) > 0
                               THEN C.slaves[Len(C.slaves)] ELSE C.ret]
       ELSE LET C1 == Run([C EXCEPT !.wl = WaitlistPopLeft(C.wl), !.ret = o],
                          o, Head(C.wl))
            IN IF C1.exc # "" THEN C1 ELSE schedule(C1)

\* the bundle of the current state, and its write-back
Bundle == [slaves |-> slaves, wl |-> job_waitlist, obj |-> obj, thr |-> thr,
           disk |-> disk, alive |-> alive, nrun |-> h.nrun, exc |-> "", ret |-> 0]

Commit(C) ==
  /\ slaves' = C.slaves
  /\ job_waitlist' = C.wl
  /\ obj' = C.obj
  /\ thr' = C.thr
  /\ disk' = C.disk
  /\ alive' = C.alive

----------------------------------------------------------------------------
(* Initial state: ServerContext.__init__ with no snapshot file, then the   *)
(* first ctx.schedule() of start(), which finds the waitlist empty.        *)

\* what is recorded of the command being handled: its arguments, the job id
\* add_job gave (for add_slave the job at the head of the waitlist), the busy
\* worker remove_slave acted on and the pid it read,
\* whether load_status read the status output of the state it started in,
\* for add_slave whether the address was in the workers list and how many
\* Slave objects existed when the handler started, and for a handler that
\* calls schedule the waiting jobs (w), the idle workers of the list (i) and
\* the launches so far (n) at the call, and the memory the command found (pre)
NoLast == [cmd |-> "none", ip |-> "", opt |-> "none", envs |-> L(<<>>), job |-> 0,
           victim |-> 0, pid |-> 0, fresh |-> FALSE, present |-> FALSE, nobj |-> 0,
           w |-> 0, i |-> 0, n |-> 0, args |-> L(<<>>), pre |-> <<>>]

Init ==
  /\ slaves = <<>>
  /\ job_waitlist = <<>>
  /\ obj = <<>>
  /\ thr = <<>>
  /\ lock = "none"
  /\ should_stop = FALSE
  /\ disk = <<>>
  /\ alive = {}
  /\ m = IdleMain
  /\ resp = NoResp
  /\ file = <<>>
  /\ h = [ncmd |-> 0, njobs |-> 0, nrun |-> 0, removed |-> {}, loaded |-> FALSE,
          signalled |-> {}, disturbed |-> FALSE, last |-> NoLast]

Terminated(t) == thr[t].pc \in {"done", "dead"}

\* the command loop reads the next command: `while not ctx.should_stop`
Ready == m.pc = "idle" /\ ~should_stop /\ lock = "none" /\ h.ncmd < MaxCmds

\* the command loop reads a record that reaches no handler
Reading == m.pc = "idle" /\ ~should_stop /\ h.ncmd < MaxCmds

\* an exception leaves the handler: `with self.lock` releases the lock and
\* start() answers {"err": str(err)}
Raise(text) ==
  /\ m' = ReplyMain
  /\ lock' = "none"
  /\ resp' = Err(text)

\* start(): the response is written to the reply pipe and the loop goes on
\* to `while not ctx.should_stop`
Reply ==
  /\ m.pc = "reply"
  /\ m' = [IdleMain EXCEPT !.pc = IF should_stop THEN "stopped" ELSE "idle"]
  /\ resp' = NoResp
  /\ h' = [h EXCEPT !.last = NoLast, !.disturbed = FALSE]
  /\ UNCHANGED <<slaves, job_waitlist, obj, thr, lock, should_stop, disk, alive, file>>

\* the waitlist and the workers of the list as a command finds them: address,
\* status, running_job, remove_after_finish and the supervisor attached
MemView(sl, o, wl) ==
  [slaves |-> [i \in 1..Len(sl) |->
                 [st |-> GetState(o[sl[i]]), waiter |-> o[sl[i]].process_waiter]],
   waitlist |-> wl]

Started(c) ==
  [h EXCEPT !.last = [c EXCEPT !.pre = << MemView(slaves, obj, job_waitlist) >>],
            !.disturbed = FALSE, !.ncmd = h.ncmd + 1]

\* start(): json.load raises on a record that is not JSON; the bare except
\* logs it and `continue`s: nothing is answered
ReadMalformed ==
  /\ Reading
  /\ h' = [h EXCEPT !.ncmd = h.ncmd + 1]
  /\ UNCHANGED <<m, resp, slaves, job_waitlist, obj, thr, lock, should_stop,
                 disk, alive, file>>

\* start(): the record is JSON but a number, true, false or null: `'pipe' in
\* cmd` stands outside the try and raises TypeError, which ends the main
\* thread; the supervisor threads run on
ReadScalar ==
  /\ Reading
  /\ m' = [IdleMain EXCEPT !.pc = "crashed"]
  /\ h' = [h EXCEPT !.ncmd = h.ncmd + 1]
  /\ UNCHANGED <<resp, slaves, job_waitlist, obj, thr, lock, should_stop,
                 disk, alive, file>>

\* start(): a record whose type is none of the seven commands
ReadUnknownType ==
  /\ Reading
  /\ m' = ReplyMain
  /\ resp' = Err("Unknown command type")
  /\ h' = Started([NoLast EXCEPT !.cmd = "unknown"])
  /\ UNCHANGED <<slaves, job_waitlist, obj, thr, lock, should_stop, disk,
                 alive, file>>

----------------------------------------------------------------------------
(* ServerContext.schedule as the command loop's thread runs it, under      *)
(* ctx.lock: `for slave in self.slaves` walks the list by index, one       *)
(* element a step, so that the supervisors' writes fall between the steps. *)
(* m.cmd is the caller ("boot" for the call in start()), m.ret the local   *)
(* `slave` that schedule returns.                                          *)

\* the idle workers of a workers list
NumIdle(sl, o) == Cardinality({i \in 1..Len(sl) : o[sl[i]].status = "idle"})

\* add_job's answer after schedule returned ret
\* add_job answering from the returned worker alone
AddJobRespUnchecked(wl, ret) ==
  IF ret # 0 THEN [kind |-> "msg", text |-> "Job is asigned to", ip |-> obj[ret].ip]
  ELSE Msg("All slaves are busy. Job is added to the waiting list.")

AddJobResp(wl, ret) ==
  IF Len(wl) > 0 THEN Msg("All slaves are busy. Job is added to the waiting list.")
  ELSE IF ret # 0 THEN [kind |-> "msg", text |-> "Job is asigned to", ip |-> obj[ret].ip]
  ELSE Msg("ServerContext.add_job: This should never be reached.")

\* schedule returns ret: the caller answers and the lock is released
SchedDone(wl, ret) ==
  /\ lock' = "none"
  /\ IF m.cmd = "boot"
     THEN /\ m' = IdleMain
          /\ resp' = NoResp
     ELSE /\ m' = ReplyMain
          /\ resp' = IF m.cmd = "add_job" THEN AddJobResp(wl, ret) ELSE Msg("ok")

\* Slave.run raised: a handler answers {err}; start() has no try around its
\* own call and the main thread ends
SchedRaise(text) ==
  IF m.cmd = "boot"
  THEN /\ m' = [IdleMain EXCEPT !.pc = "crashed"]
       /\ lock' = "none"
       /\ resp' = NoResp
  ELSE Raise(text)

\* one pass of `for slave in self.slaves` inside `while len(job_waitlist) > 0`
SchedFor ==
  /\ m.pc = "sc_for"
  /\ IF m.i > Len(slaves)
     THEN /\ SchedDone(job_waitlist, m.ret)
          /\ UNCHANGED <<slaves, job_waitlist, obj, thr, disk, alive, h>>
     ELSE LET o == slaves[m.i] IN
          IF obj[o].status # "idle"
          THEN /\ m' = [m EXCEPT !.i = m.i + 1, !.ret = o]
               /\ UNCHANGED <<slaves, job_waitlist, obj, thr, disk, alive, h, lock, resp>>
          ELSE LET C == Run([Bundle EXCEPT !.wl = WaitlistPopLeft(job_waitlist)],
                            o, Head(job_waitlist))
               IN /\ Commit(C)
                  /\ h' = [h EXCEPT !.nrun = C.nrun]
                  /\ IF C.exc # "" THEN SchedRaise(C.exc)
                     ELSE IF Len(C.wl) = 0 THEN SchedDone(C.wl, o)
                     ELSE /\ m' = [m EXCEPT !.i = 1, !.ret = o]
                          /\ UNCHANGED <<lock, resp>>
  /\ UNCHANGED <<should_stop, file>>

----------------------------------------------------------------------------
(* add_job and remove_job: the whole handler runs under ctx.lock *)

AddJob(args, envs) ==
  /\ Ready
  /\ h.njobs < MaxJobs
  /\ LET job == [id |-> h.njobs + 1, args |-> args, envs |-> envs, tup |-> TRUE]
         wl == WaitlistAppend(job_waitlist, job)
     IN /\ job_waitlist' = wl
        /\ disk' = << Pickle(slaves, obj, wl) >>
  /\ lock' = "main"
  /\ m' = [IdleMain EXCEPT !.pc = "sc_for", !.cmd = "add_job", !.i = 1]
  /\ h' = [Started([NoLast EXCEPT
                      !.cmd = "add_job", !.envs = envs, !.job = h.njobs + 1,
                      !.w = Len(job_waitlist) + 1, !.i = NumIdle(slaves, obj),
                      !.n = h.nrun])
             EXCEPT !.njobs = h.njobs + 1]
  /\ UNCHANGED <<slaves, obj, thr, should_stop, alive, resp, file>>

\* deque.remove((args, envs)): the first element equal to the tuple; an
\* element read back from JSON is a list and equals no tuple
Matches(e, args, envs) == e.tup /\ e.args = args /\ e.envs = envs

RemoveAt(q, k) == [i \in 1..(Len(q) - 1) |-> IF i < k THEN q[i] ELSE q[i + 1]]

RemoveJob(args, envs) ==
  /\ Ready
  /\ LET hit == {i \in 1..Len(job_waitlist) : Matches(job_waitlist[i], args, envs)}
     IN IF hit = {}
        THEN /\ resp' = Msg("Failed to remove the job from waitlist")
             /\ h' = Started([NoLast EXCEPT !.cmd = "remove_job", !.envs = envs,
                                           !.args = args])
             /\ UNCHANGED <<job_waitlist, disk>>
        ELSE LET k == CHOOSE i \in hit : \A j \in hit : i <= j
                 wl == RemoveAt(job_waitlist, k)
             IN /\ job_waitlist' = wl
                /\ disk' = << Pickle(slaves, obj, wl) >>
                /\ resp' = Msg("The job is removed from waitlist")
                /\ h' = [Started([NoLast EXCEPT !.cmd = "remove_job", !.envs = envs,
                                                !.args = args,
                                                !.job = job_waitlist[k].id])
                           EXCEPT !.removed = h.removed \cup {job_waitlist[k].id}]
  /\ m' = ReplyMain
  /\ UNCHANGED <<slaves, obj, thr, lock, should_stop, alive, file>>

----------------------------------------------------------------------------
(* add_slave: the duplicate scan walks ctx.slaves by index, one element a  *)
(* step, under ctx.lock                                                    *)

AddSlaveBegin(ip, envs) ==
  /\ Ready
  /\ Len(obj) < MaxObj
  /\ m' = [IdleMain EXCEPT !.pc = "as_loop", !.cmd = "add_slave", !.ip = ip,
                           !.envs = envs, !.i = 1]
  /\ lock' = "main"
  /\ h' = Started([NoLast EXCEPT
                     !.cmd = "add_slave", !.ip = ip, !.envs = envs,
                     !.present = \E i \in 1..Len(slaves) : obj[slaves[i]].ip = ip,
                     !.nobj = Len(obj)])
  /\ UNCHANGED <<slaves, job_waitlist, obj, thr, should_stop, disk, alive, resp, file>>

AddSlaveScan ==
  /\ m.pc = "as_loop"
  /\ m.i <= Len(slaves)
  /\ IF obj[slaves[m.i]].ip = m.ip
     THEN /\ m' = ReplyMain
          /\ lock' = "none"
          /\ resp' = Err("is already added")
     ELSE /\ m' = [m EXCEPT !.i = m.i + 1]
          /\ UNCHANGED <<lock, resp>>
  /\ UNCHANGED <<slaves, job_waitlist, obj, thr, should_stop, disk, alive, file, h>>

AddSlaveAppend ==
  /\ m.pc = "as_loop"
  /\ m.i > Len(slaves)
  /\ LET envs_dict == parse_key_values(m.envs) IN
     IF envs_dict.t = "error"
     THEN /\ Raise(ErrParse)
          /\ UNCHANGED <<slaves, job_waitlist, obj, thr, disk, alive, h>>
     ELSE LET o == Len(obj) + 1
              C == Save([Bundle EXCEPT
                           !.obj = Append(obj, Slave(m.ip, envs_dict)),
                           !.slaves = Append(slaves, o)])
          IN /\ Commit(C)
             /\ IF Len(job_waitlist) = 0
                THEN SchedDone(job_waitlist, 0)
                ELSE /\ m' = [m EXCEPT !.pc = "sc_for", !.i = 1, !.ret = 0]
                     /\ UNCHANGED <<lock, resp>>
             /\ h' = [h EXCEPT !.last.w = Len(job_waitlist),
                               !.last.i = NumIdle(C.slaves, C.obj),
                               !.last.n = h.nrun,
                               !.last.job = IF Len(job_waitlist) = 0 THEN 0
                                            ELSE Head(job_waitlist).id]
  /\ UNCHANGED <<should_stop, file>>

----------------------------------------------------------------------------
(* remove_slave: under ctx.lock; the loop walks ctx.slaves by index and    *)
(* builds new_list; the kill branch reads the pid, sets the shutdown       *)
(* event, reads process_waiter, joins it and calls os.kill                 *)

\* os.kill(pid, sig) takes two arguments; any other call raises TypeError
os_kill(args) == IF Len(args) = Len(<<"pid", "sig">>) THEN "" ELSE "TypeError"

\* the argument list of the call at the kill branch: os.kill(pid)
KillArgs(pid) == << pid >>

RemoveSlaveBegin(ip, opt) ==
  /\ Ready
  /\ m' = [IdleMain EXCEPT !.pc = "rs_loop", !.cmd = "remove_slave", !.ip = ip,
                           !.opt = opt, !.i = 1]
  /\ lock' = "main"
  /\ h' = Started([NoLast EXCEPT !.cmd = "remove_slave", !.ip = ip, !.opt = opt])
  /\ UNCHANGED <<slaves, job_waitlist, obj, thr, should_stop, disk, alive, resp, file>>

RemoveSlaveIter ==
  /\ m.pc = "rs_loop"
  /\ m.i <= Len(slaves)
  /\ LET o == slaves[m.i]
         next == [m EXCEPT !.i = m.i + 1]
     IN IF obj[o].ip # m.ip
        THEN /\ m' = [next EXCEPT !.new_list = Append(m.new_list, o)]
             /\ UNCHANGED <<obj, lock, resp, h>>
        ELSE IF obj[o].status = "idle"
        THEN /\ m' = [next EXCEPT !.removed = TRUE]
             /\ UNCHANGED <<obj, lock, resp, h>>
        ELSE IF obj[o].remove_after_finish
        THEN /\ Raise("This slave is already marked for removal.")
             /\ UNCHANGED <<obj, h>>
        ELSE IF m.opt = "wait"
        THEN /\ obj' = [obj EXCEPT ![o].remove_after_finish = TRUE]
             /\ m' = [next EXCEPT !.removed = TRUE, !.new_list = Append(m.new_list, o)]
             /\ h' = [h EXCEPT !.last.victim = o]
             /\ UNCHANGED <<lock, resp>>
        ELSE IF m.opt = "kill"
        THEN /\ m' = [next EXCEPT !.removed = TRUE, !.pc = "rs_kill", !.cur = o]
             /\ h' = [h EXCEPT !.last.victim = o]
             /\ UNCHANGED <<obj, lock, resp>>
        ELSE /\ Raise("This slave is currently busy. Use --wait or --kill to remove it.")
             /\ UNCHANGED <<obj, h>>
  /\ UNCHANGED <<slaves, job_waitlist, thr, should_stop, disk, alive, file>>

\* pid = slave.running_job.pid; slave._shutdown_event.set()
RemoveSlaveKillPid ==
  /\ m.pc = "rs_kill"
  /\ IF obj[m.cur].running_job = <<>>
     THEN /\ Raise("AttributeError")
          /\ UNCHANGED <<obj, h>>
     ELSE /\ m' = [m EXCEPT !.pc = "rs_read", !.pid = obj[m.cur].running_job[1].pid]
          /\ obj' = [obj EXCEPT ![m.cur].shutdown_event = TRUE]
          /\ h' = [h EXCEPT !.last.pid = obj[m.cur].running_job[1].pid]
          /\ UNCHANGED <<lock, resp>>
  /\ UNCHANGED <<slaves, job_waitlist, thr, should_stop, disk, alive, file>>

\* slave.process_waiter.join(): the attribute is read, then joined
RemoveSlaveKillRead ==
  /\ m.pc = "rs_read"
  /\ IF obj[m.cur].process_waiter = 0
     THEN Raise("AttributeError")
     ELSE /\ m' = [m EXCEPT !.pc = "rs_join", !.joinee = obj[m.cur].process_waiter]
          /\ UNCHANGED <<lock, resp>>
  /\ UNCHANGED <<slaves, job_waitlist, obj, thr, should_stop, disk, alive, file, h>>

\* join returns once the supervisor has ended; then os.kill(pid); continue
RemoveSlaveKillJoin ==
  /\ m.pc = "rs_join"
  /\ Terminated(m.joinee)
  /\ IF os_kill(KillArgs(m.pid)) # ""
     THEN /\ Raise(os_kill(KillArgs(m.pid)))
          /\ UNCHANGED h
     ELSE /\ m' = [m EXCEPT !.pc = "rs_loop"]
          /\ h' = [h EXCEPT !.signalled = h.signalled \cup {m.pid}]
          /\ UNCHANGED <<lock, resp>>
  /\ UNCHANGED <<slaves, job_waitlist, obj, thr, should_stop, disk, alive, file>>

\* the loop is exhausted: self.slaves = new_list; self._save(); the answer
RemoveSlaveCommit ==
  /\ m.pc = "rs_loop"
  /\ m.i > Len(slaves)
  /\ slaves' = m.new_list
  /\ disk' = << Pickle(m.new_list, obj, job_waitlist) >>
  /\ lock' = "none"
  /\ resp' = IF m.removed THEN Msg("ok") ELSE Msg("Cannot find the specific slave")
  /\ m' = ReplyMain
  /\ UNCHANGED <<job_waitlist, obj, thr, should_stop, alive, file, h>>

----------------------------------------------------------------------------
(* status and load_status: neither takes ctx.lock (load_status only inside *)
(* its final _save)                                                        *)

\* ServerContext.toJSON, as json.dumps(resp, default=dumper) writes it: a
\* waitlist tuple becomes an array, a JobInfo its __dict__, and the key
\* remove_after_finish is present only when true
SlaveJSON(s) ==
  [ip |-> s.ip, envs |-> s.envs, status |-> s.status, running_job |-> s.running_job,
   remove_after_finish |-> IF s.remove_after_finish THEN << TRUE >> ELSE <<>>]

toJSON(sl, o, wl) ==
  [job_waitlist |-> [i \in 1..Len(wl) |-> [id |-> wl[i].id, args |-> wl[i].args,
                                            envs |-> wl[i].envs]],
   slaves |-> [i \in 1..Len(sl) |-> SlaveJSON(o[sl[i]])]]

\* slave.envs raises AttributeError on a Slave rebuilt from the snapshot
CanJSON == \A i \in 1..Len(slaves) : obj[slaves[i]].envs.t # "noattr"

\* the client prints the answer; `keep` is whether the user stores it in the
\* file a later load_status reads
Status(keep) ==
  /\ Ready
  /\ IF CanJSON
     THEN /\ resp' = [kind |-> "status", text |-> "", ip |-> ""]
          /\ file' = IF keep THEN << toJSON(slaves, obj, job_waitlist) >> ELSE file
     ELSE /\ resp' = Err("AttributeError")
          /\ file' = file
  /\ h' = Started([NoLast EXCEPT !.cmd = "status"])
  /\ m' = ReplyMain
  /\ UNCHANGED <<slaves, job_waitlist, obj, thr, lock, should_stop, disk, alive>>

\* deque(j["job_waitlist"]): every entry is now a list [args, envs]
LoadWaitlist(jw) ==
  [i \in 1..Len(jw) |-> [id |-> jw[i].id, args |-> jw[i].args, envs |-> jw[i].envs,
                         tup |-> FALSE]]

\* JobInfo(job_info["id"], job_info["envs"], job_info["script"],
\*         job_info["pid"], job_info["log_file"])
LoadJobInfo(ji) == JobInfo(ji.id, ji.envs, ji.script, ji.pid, ji.log_file, ji.job)

LoadStatusBegin ==
  /\ Ready
  /\ file # <<>>
  /\ Len(obj) + Len(file[1].slaves) <= MaxObj
  /\ job_waitlist' = LoadWaitlist(file[1].job_waitlist)
  /\ slaves' = <<>>
  /\ m' = [IdleMain EXCEPT !.pc = "ls_loop", !.cmd = "load_status",
                           !.src = file[1].slaves, !.i = 1]
  /\ h' = [Started([NoLast EXCEPT
                      !.cmd = "load_status",
                      !.fresh = CanJSON /\ toJSON(slaves, obj, job_waitlist) = file[1]])
             EXCEPT !.loaded = TRUE]
  /\ UNCHANGED <<obj, thr, lock, should_stop, disk, alive, resp, file>>

\* one pass of `for slave in j["slaves"]`
LoadStatusIter ==
  /\ m.pc = "ls_loop"
  /\ m.i <= Len(m.src)
  /\ LET js == m.src[m.i]
         envs_dict == parse_key_values(js.envs)
     IN IF envs_dict.t = "error"
        THEN /\ Raise(ErrParse)
             /\ UNCHANGED <<slaves, obj, thr>>
        ELSE LET o == Len(obj) + 1
                 s0 == [Slave(js.ip, envs_dict) EXCEPT
                          !.status = js.status,
                          !.remove_after_finish =
                             IF js.remove_after_finish # <<>>
                             THEN js.remove_after_finish[1] ELSE FALSE,
                          !.running_job =
                             IF js.running_job # <<>>
                             THEN << LoadJobInfo(js.running_job[1]) >> ELSE <<>>]
                 C == Monitor([Bundle EXCEPT !.obj = Append(obj, s0)], o, FALSE)
             IN /\ obj' = C.obj
                /\ thr' = C.thr
                /\ slaves' = Append(slaves, o)
                /\ m' = [m EXCEPT !.i = m.i + 1]
                /\ UNCHANGED <<lock, resp>>
  /\ UNCHANGED <<job_waitlist, should_stop, disk, alive, file, h>>

LoadStatusCommit ==
  /\ m.pc = "ls_loop"
  /\ m.i > Len(m.src)
  /\ lock = "none"
  /\ disk' = << Pickle(slaves, obj, job_waitlist) >>
  /\ resp' = Msg("ok")
  /\ m' = ReplyMain
  /\ UNCHANGED <<slaves, job_waitlist, obj, thr, lock, should_stop, alive, file, h>>

----------------------------------------------------------------------------
(* shutdown: _save, should_stop, then Slave.shutdown for each worker of    *)
(* ctx.slaves, walked by index; no lock is held outside _save              *)

ShutdownBegin ==
  /\ Ready
  /\ disk' = << Pickle(slaves, obj, job_waitlist) >>
  /\ should_stop' = TRUE
  /\ m' = [IdleMain EXCEPT !.pc = "sh_loop", !.cmd = "shutdown", !.i = 1]
  /\ h' = Started([NoLast EXCEPT !.cmd = "shutdown"])
  /\ UNCHANGED <<slaves, job_waitlist, obj, thr, lock, alive, resp, file>>

\* `if self.process_waiter is not None: self._shutdown_event.set()`
ShutdownIter ==
  /\ m.pc = "sh_loop"
  /\ m.i <= Len(slaves)
  /\ LET o == slaves[m.i] IN
     IF obj[o].process_waiter # 0
     THEN /\ obj' = [obj EXCEPT ![o].shutdown_event = TRUE]
          /\ m' = [m EXCEPT !.i = m.i + 1, !.pc = "sh_read", !.cur = o]
     ELSE /\ m' = [m EXCEPT !.i = m.i + 1]
          /\ UNCHANGED obj
  /\ UNCHANGED <<slaves, job_waitlist, thr, lock, should_stop, disk, alive, resp, file, h>>

\* `self.process_waiter.join()`: the attribute is read again
ShutdownRead ==
  /\ m.pc = "sh_read"
  /\ IF obj[m.cur].process_waiter = 0
     THEN Raise("AttributeError")
     ELSE /\ m' = [m EXCEPT !.pc = "sh_join", !.joinee = obj[m.cur].process_waiter]
          /\ UNCHANGED <<lock, resp>>
  /\ UNCHANGED <<slaves, job_waitlist, obj, thr, should_stop, disk, alive, file, h>>

ShutdownJoin ==
  /\ m.pc = "sh_join"
  /\ Terminated(m.joinee)
  /\ m' = [m EXCEPT !.pc = "sh_loop"]
  /\ UNCHANGED <<slaves, job_waitlist, obj, thr, lock, should_stop, disk, alive, resp, file, h>>

\* the loop is exhausted: the answer is "Stopped" and the command loop ends
ShutdownDone ==
  /\ m.pc = "sh_loop"
  /\ m.i > Len(slaves)
  /\ resp' = Msg("Stopped")
  /\ m' = ReplyMain
  /\ UNCHANGED <<slaves, job_waitlist, obj, thr, lock, should_stop, disk, alive, file, h>>

----------------------------------------------------------------------------
(* The supervisor thread _process_waiter(pid, slave, proc).  Its writes to *)
(* the Slave and to ctx.slaves are single steps taken without ctx.lock;    *)
(* only _save and schedule acquire it.                                     *)

Threads == 1..Len(thr)

\* a supervisor step taken while a command handler is running
Disturb ==
  IF m.pc \in {"idle", "reply", "stopped", "crashed"} THEN h
  ELSE [h EXCEPT !.disturbed = TRUE]

\* the job's process ends by itself
ProcExit(p) ==
  /\ p \in alive
  /\ alive' = alive \ {p}
  /\ UNCHANGED <<slaves, job_waitlist, obj, thr, lock, should_stop, disk, m, resp, file, h>>

\* `while check_pid(pid)` fails, or proc.poll() is not None: leave the loop
SupExitSeen(t) ==
  /\ thr[t].pc = "poll"
  /\ thr[t].pid \notin alive
  /\ thr' = [thr EXCEPT ![t].pc = "c_log"]
  /\ UNCHANGED <<slaves, job_waitlist, obj, lock, should_stop, disk, alive, m, resp, file, h>>

\* a detach that resets the worker as the completion path does
SupDetachResets(t) ==
  /\ thr[t].pc = "poll"
  /\ thr[t].pid \in alive
  /\ obj[thr[t].slave].shutdown_event
  /\ thr' = [thr EXCEPT ![t].pc = "done"]
  /\ obj' = [obj EXCEPT ![thr[t].slave].running_job = <<>>,
                        ![thr[t].slave].status = "idle"]
  /\ UNCHANGED <<slaves, job_waitlist, lock, should_stop, disk, alive, m, resp, file, h>>

\* `if slave._shutdown_event.wait(1): return`
SupDetach(t) ==
  /\ thr[t].pc = "poll"
  /\ thr[t].pid \in alive
  /\ obj[thr[t].slave].shutdown_event
  /\ thr' = [thr EXCEPT ![t].pc = "done"]
  /\ UNCHANGED <<slaves, job_waitlist, obj, lock, should_stop, disk, alive, m, resp, file, h>>

\* logging.info(... slave.running_job.id ...); slave.process_waiter = None
SupClearWaiter(t) ==
  /\ thr[t].pc = "c_log"
  /\ IF obj[thr[t].slave].running_job = <<>>
     THEN /\ thr' = [thr EXCEPT ![t].pc = "dead"]
          /\ UNCHANGED obj
     ELSE /\ thr' = [thr EXCEPT ![t].pc = "c_job"]
          /\ obj' = [obj EXCEPT ![thr[t].slave].process_waiter = 0]
  /\ h' = Disturb
  /\ UNCHANGED <<slaves, job_waitlist, lock, should_stop, disk, alive, m, resp, file>>

\* slave.running_job = None
SupClearJob(t) ==
  /\ thr[t].pc = "c_job"
  /\ obj' = [obj EXCEPT ![thr[t].slave].running_job = <<>>]
  /\ thr' = [thr EXCEPT ![t].pc = "c_raf"]
  /\ h' = Disturb
  /\ UNCHANGED <<slaves, job_waitlist, lock, should_stop, disk, alive, m, resp, file>>

\* `if slave.remove_after_finish:`
SupReadRaf(t) ==
  /\ thr[t].pc = "c_raf"
  /\ thr' = [thr EXCEPT ![t].pc = IF obj[thr[t].slave].remove_after_finish
                                  THEN "c_remove" ELSE "c_idle"]
  /\ UNCHANGED <<slaves, job_waitlist, obj, lock, should_stop, disk, alive, m, resp, file, h>>

\* list.remove(x): the first element that is x; ValueError when there is none
ListRemove(sl, o) ==
  LET hit == {i \in 1..Len(sl) : sl[i] = o}
  IN RemoveAt(sl, CHOOSE i \in hit : \A j \in hit : i <= j)

\* slave.ctx.slaves.remove(slave)
SupRemove(t) ==
  /\ thr[t].pc = "c_remove"
  /\ IF \E i \in 1..Len(slaves) : slaves[i] = thr[t].slave
     THEN /\ slaves' = ListRemove(slaves, thr[t].slave)
          /\ thr' = [thr EXCEPT ![t].pc = "c_removed"]
     ELSE /\ thr' = [thr EXCEPT ![t].pc = "dead"]
          /\ UNCHANGED slaves
  /\ h' = Disturb
  /\ UNCHANGED <<job_waitlist, obj, lock, should_stop, disk, alive, m, resp, file>>

\* slave.status = "removed"
SupMarkRemoved(t) ==
  /\ thr[t].pc = "c_removed"
  /\ obj' = [obj EXCEPT ![thr[t].slave].status = "removed"]
  /\ thr' = [thr EXCEPT ![t].pc = "c_save"]
  /\ h' = Disturb
  /\ UNCHANGED <<slaves, job_waitlist, lock, should_stop, disk, alive, m, resp, file>>

\* slave.status = "idle"
SupMarkIdle(t) ==
  /\ thr[t].pc = "c_idle"
  /\ obj' = [obj EXCEPT ![thr[t].slave].status = "idle"]
  /\ thr' = [thr EXCEPT ![t].pc = "c_save"]
  /\ h' = Disturb
  /\ UNCHANGED <<slaves, job_waitlist, lock, should_stop, disk, alive, m, resp, file>>

\* slave.ctx._save(): waits for ctx.lock
SupSave(t) ==
  /\ thr[t].pc = "c_save"
  /\ lock = "none"
  /\ disk' = << Pickle(slaves, obj, job_waitlist) >>
  /\ thr' = [thr EXCEPT ![t].pc = "c_sched"]
  /\ h' = Disturb
  /\ UNCHANGED <<slaves, job_waitlist, obj, lock, should_stop, alive, m, resp, file>>

\* slave.ctx.schedule(): waits for ctx.lock; an exception ends the thread
SupSchedule(t) ==
  /\ thr[t].pc = "c_sched"
  /\ lock = "none"
  /\ LET C == schedule(Bundle) IN
     /\ slaves' = C.slaves
     /\ job_waitlist' = C.wl
     /\ obj' = C.obj
     /\ disk' = C.disk
     /\ alive' = C.alive
     /\ thr' = [C.thr EXCEPT ![t].pc = IF C.exc # "" THEN "dead" ELSE "done"]
     /\ h' = [Disturb EXCEPT !.nrun = C.nrun]
  /\ UNCHANGED <<lock, should_stop, m, resp, file>>

----------------------------------------------------------------------------
(* A new daemon process: the old one is gone with its threads (killed      *)
(* between two commands, or ended after shutdown or after an uncaught      *)
(* exception) while the job processes live on.  start() builds             *)
(* ServerContext, whose _load unpickles the snapshot and associates every  *)
(* Slave, and then calls ctx.schedule() outside any try: an exception      *)
(* there ends the main thread before the command loop.                     *)

\* `for slave in self.slaves: slave.associate(self)`
RECURSIVE AssociateAll(_, _)
AssociateAll(C, o) ==
  IF o > Len(C.obj) THEN C ELSE AssociateAll(Monitor(C, o, FALSE), o + 1)

\* ServerContext._load
Load ==
  IF disk = <<>>
  THEN [Bundle EXCEPT !.slaves = <<>>, !.wl = <<>>, !.obj = <<>>, !.thr = <<>>]
  ELSE AssociateAll(
         [Bundle EXCEPT
            !.obj = [i \in 1..Len(disk[1].slaves) |-> SetState(disk[1].slaves[i])],
            !.slaves = [i \in 1..Len(disk[1].slaves) |-> i],
            !.wl = disk[1].waitlist,
            !.thr = <<>>], 1)

Restart ==
  /\ m.pc \in {"idle", "stopped", "crashed"}
  /\ h.ncmd < MaxCmds
  /\ Commit(Load)
  /\ IF Len(Load.wl) = 0
     THEN /\ m' = IdleMain
          /\ lock' = "none"
     ELSE /\ m' = [IdleMain EXCEPT !.pc = "sc_for", !.cmd = "boot", !.i = 1]
          /\ lock' = "main"
  /\ h' = [h EXCEPT !.last = NoLast, !.disturbed = FALSE, !.ncmd = h.ncmd + 1]
  /\ should_stop' = FALSE
  /\ resp' = NoResp
  /\ UNCHANGED file

----------------------------------------------------------------------------

Next ==
  \/ Reply
  \/ \E args \in JobArgs, envs \in JobEnvs : AddJob(args, envs)
  \/ SchedFor
  \/ \E args \in JobArgs, envs \in JobEnvs : RemoveJob(args, envs)
  \/ \E in \in SlaveInputs : AddSlaveBegin(in[1], in[2])
  \/ AddSlaveScan
  \/ AddSlaveAppend
  \/ \E ip \in Addrs, opt \in {"none", "wait", "kill"} : RemoveSlaveBegin(ip, opt)
  \/ RemoveSlaveIter
  \/ RemoveSlaveKillPid
  \/ RemoveSlaveKillRead
  \/ RemoveSlaveKillJoin
  \/ RemoveSlaveCommit
  \/ \E keep \in BOOLEAN : Status(keep)
  \/ LoadStatusBegin
  \/ LoadStatusIter
  \/ LoadStatusCommit
  \/ ShutdownBegin
  \/ ReadMalformed
  \/ ReadScalar
  \/ ReadUnknownType
  \/ ShutdownIter
  \/ ShutdownRead
  \/ ShutdownJoin
  \/ ShutdownDone
  \/ \E p \in alive : ProcExit(p)
  \/ \E t \in Threads : SupExitSeen(t)
  \/ \E t \in Threads : SupDetach(t)
  \/ \E t \in Threads : SupClearWaiter(t)
  \/ \E t \in Threads : SupClearJob(t)
  \/ \E t \in Threads : SupReadRaf(t)
  \/ \E t \in Threads : SupRemove(t)
  \/ \E t \in Threads : SupMarkRemoved(t)
  \/ \E t \in Threads : SupMarkIdle(t)
  \/ \E t \in Threads : SupSave(t)
  \/ \E t \in Threads : SupSchedule(t)

Spec == Init /\ [][Next]_vars

\* the daemon with restarts
NextRestart == Next \/ Restart

SpecRestart == Init /\ [][NextRestart]_vars

\* the steps of supervisor thread t
SupStep(t) ==
  \/ SupExitSeen(t)
  \/ SupDetach(t)
  \/ SupClearWaiter(t)
  \/ SupClearJob(t)
  \/ SupReadRaf(t)
  \/ SupRemove(t)
  \/ SupMarkRemoved(t)
  \/ SupMarkIdle(t)
  \/ SupSave(t)
  \/ SupSchedule(t)

\* a supervisor thread that can run is eventually run; neither the arrival
\* of commands nor the end of a job's process is forced
FairSpec ==
  /\ SpecRestart
  /\ WF_vars(\E t \in Threads : SupStep(t))

----------------------------------------------------------------------------
(* Observation points *)

InCompletion(t) ==
  thr[t].pc \in {"c_log", "c_job", "c_raf", "c_remove", "c_removed", "c_idle",
                 "c_save", "c_sched"}

\* no command handler is running and no supervisor is inside its completion path
Quiescent ==
  /\ m.pc \in {"idle", "reply", "stopped", "crashed"}
  /\ \A t \in Threads : ~InCompletion(t)

Workers == {slaves[i] : i \in 1..Len(slaves)}

----------------------------------------------------------------------------
(* C1: at every observation point a busy worker of the workers list has a  *)
(* running_job, an idle one has none, and the busy workers are as many as  *)
(* the running jobs.                                                       *)

C1_BusyIffRunningJob ==
  Quiescent =>
    /\ \A o \in Workers :
         /\ obj[o].status = "busy" => obj[o].running_job # <<>>
         /\ obj[o].status = "idle" => obj[o].running_job = <<>>
    /\ Cardinality({i \in 1..Len(slaves) : obj[slaves[i]].status = "busy"})
         = Cardinality({i \in 1..Len(slaves) : obj[slaves[i]].running_job # <<>>})

----------------------------------------------------------------------------
(* C2: the waitlist is FIFO.  Jobs are numbered in submission order, so    *)
(* the submitted jobs not removed by remove_job are, in order, the         *)
(* ascending sequence of their numbers.                                    *)

RECURSIVE Ascending(_)
Ascending(S) ==
  IF S = {} THEN <<>>
  ELSE LET x == CHOOSE a \in S : \A b \in S : a <= b
       IN << x >> \o Ascending(S \ {x})

WaitIds == [i \in 1..Len(job_waitlist) |-> job_waitlist[i].id]

IsSuffix(w, q) == Len(w) <= Len(q) /\ w = SubSeq(q, Len(q) - Len(w) + 1, Len(q))

\* C2 as claimed: at every moment the waitlist is a suffix, in submission
\* order, of the submitted jobs that remove_job has not removed
C2_WaitlistIsSuffix == IsSuffix(WaitIds, Ascending((1..h.njobs) \ h.removed))

\* C2 amended: the same, as long as no load_status has replaced the waitlist;
\* hence a job is never assigned while an earlier submitted job still waits
C2_WaitlistIsSuffixUntilLoad == ~h.loaded => C2_WaitlistIsSuffix

\* a job runs on a worker while a job submitted after it waits
C2_Witness ==
  /\ ~h.loaded
  /\ Len(job_waitlist) > 0
  /\ \E o \in Workers : /\ obj[o].running_job # <<>>
                        /\ obj[o].running_job[1].job < job_waitlist[1].id

----------------------------------------------------------------------------
(* C3: when remove_slave with kill on a busy worker has returned, the kill *)
(* signal has been sent to the job's process and the worker is no longer   *)
(* in the workers list.                                                    *)

C3_KillRemovesWorker ==
  (/\ m.pc = "reply"
   /\ h.last.cmd = "remove_slave"
   /\ h.last.opt = "kill"
   /\ h.last.victim # 0
   /\ h.last.pid # 0)
  => /\ h.last.pid \in h.signalled
     /\ \A o \in Workers : obj[o].ip # h.last.ip

----------------------------------------------------------------------------
(* C4: at every observation point after a mutating operation, the state    *)
(* rebuilt from the snapshot file equals the state in memory: the same     *)
(* waitlist and the same workers with the same address, env_defaults,      *)
(* status, running_job and remove_after_finish.                            *)

WorkerView(s) ==
  [ip |-> s.ip, envs |-> s.envs, status |-> s.status, running_job |-> s.running_job,
   remove_after_finish |-> s.remove_after_finish]

C4_SnapshotEquivalent ==
  (Quiescent /\ disk # <<>>) =>
    /\ disk[1].waitlist = job_waitlist
    /\ [i \in 1..Len(disk[1].slaves) |-> WorkerView(SetState(disk[1].slaves[i]))]
         = [i \in 1..Len(slaves) |-> WorkerView(obj[slaves[i]])]

----------------------------------------------------------------------------
(* C5: the supervisor's completion path runs under ctx.lock, so while a    *)
(* command handler holds the lock no step of a supervisor changes a        *)
(* worker's process_waiter, running_job or status or the workers list.     *)

C5_CompletionUnderLock ==
  [][(lock = "main" /\ \E t \in Threads : thr'[t].pc # thr[t].pc) =>
       /\ slaves' = slaves
       /\ \A o \in 1..Len(obj) :
            /\ obj'[o].process_waiter = obj[o].process_waiter
            /\ obj'[o].running_job = obj[o].running_job
            /\ obj'[o].status = obj[o].status]_vars

----------------------------------------------------------------------------
(* C6: no deadlock: whenever a handler waits in join for a supervisor, the *)
(* supervisor has ended or can still take a step, so the join returns.     *)

\* the supervisor waits for ctx.lock, which somebody else holds
Blocked(t) == thr[t].pc \in {"c_save", "c_sched"} /\ lock # "none"

C6_JoinReturns == m.pc \in {"rs_join", "sh_join"} => ~Blocked(m.joinee)

----------------------------------------------------------------------------
(* C7: an add_job whose envs name JOB_ID or SLAVE_IP is answered with the  *)
(* error "Environment name ... is reserved", and the job is neither in the *)
(* waitlist nor assigned to a worker.                                      *)

HasReserved(envs) ==
  \E i \in 1..Len(envs.v) : Len(envs.v[i]) > 0 /\ envs.v[i][1] \in ReservedNames

C7_ReservedEnvRejected ==
  (m.pc = "reply" /\ h.last.cmd = "add_job" /\ HasReserved(h.last.envs))
  => /\ resp.kind = "err"
     /\ resp.text = ErrReserved
     /\ \A i \in 1..Len(job_waitlist) : job_waitlist[i].id # h.last.job
     /\ \A o \in 1..Len(obj) : obj[o].status = "busy" =>
          /\ obj[o].running_job # <<>>
          /\ obj[o].running_job[1].job # h.last.job

----------------------------------------------------------------------------
(* C8: remove_slave with wait on a busy worker leaves it marked            *)
(* remove_after_finish, and once its job has completed (the supervisor has *)
(* marked it "removed") the worker is absent from the workers list.        *)

C8_WaitRemovesWorker ==
  /\ (/\ m.pc = "reply"
      /\ h.last.cmd = "remove_slave"
      /\ h.last.opt = "wait"
      /\ h.last.victim # 0
      /\ resp.kind = "msg")
     => obj[h.last.victim].remove_after_finish
  /\ \A o \in 1..Len(obj) : obj[o].status = "removed" => o \notin Workers

----------------------------------------------------------------------------
(* C9: load_status of the status output of the current state succeeds and  *)
(* leaves the status output unchanged (when no supervisor acted meanwhile).*)

C9_StatusLoadNoop ==
  (/\ m.pc = "reply"
   /\ h.last.cmd = "load_status"
   /\ h.last.fresh
   /\ ~h.disturbed)
  => /\ resp.kind = "msg"
     /\ CanJSON
     /\ toJSON(slaves, obj, job_waitlist) = file[1]

----------------------------------------------------------------------------
(* C10: no two live supervisors monitor the same process or the same       *)
(* worker address.                                                         *)

Monitoring(t) == thr[t].pc = "poll"

C10_OneSupervisor ==
  \A t1, t2 \in Threads :
    (t1 # t2 /\ Monitoring(t1) /\ Monitoring(t2)) =>
      /\ thr[t1].pid # thr[t2].pid
      /\ obj[thr[t1].slave].ip # obj[thr[t2].slave].ip

----------------------------------------------------------------------------
(* C11: no two workers of the workers list share an address, and an        *)
(* add_slave whose address was in the list when the handler started (no    *)
(* supervisor acting meanwhile) is answered {err: "<addr> is already       *)
(* added"} and constructs no worker.                                       *)

C11_UniqueAddress ==
  /\ \A i, j \in 1..Len(slaves) : i # j => obj[slaves[i]].ip # obj[slaves[j]].ip
  /\ (m.pc = "reply" /\ h.last.cmd = "add_slave" /\ h.last.present /\ ~h.disturbed)
     => /\ resp = Err("is already added")
        /\ Len(obj) = h.last.nobj

----------------------------------------------------------------------------
(* C12: a supervisor that finds the shutdown signal set while the job's    *)
(* process exists ends without changing any worker, the workers list or    *)
(* the snapshot; and once shutdown has returned, a worker of the list      *)
(* whose supervisor detached is busy with that job, in memory and in the   *)
(* snapshot file.                                                          *)

\* supervisor t ended by the detach path: it never cleared process_waiter
Detached(t) == thr[t].pc = "done" /\ obj[thr[t].slave].process_waiter = t

ShutdownReturned == should_stop /\ m.pc \in {"reply", "stopped"}

C12_SnapshotShowsBusy ==
  ShutdownReturned =>
    \A i \in 1..Len(slaves) : \A t \in Threads :
      (Detached(t) /\ thr[t].slave = slaves[i]) =>
         /\ obj[slaves[i]].status = "busy"
         /\ obj[slaves[i]].running_job # <<>>
         /\ obj[slaves[i]].running_job[1].pid = thr[t].pid
         /\ disk # <<>>
         /\ \E j \in 1..Len(disk[1].slaves) :
              disk[1].slaves[j] = GetState(obj[slaves[i]])

C12_DetachLeavesWorker ==
  /\ [][\A t \in Threads :
          (thr[t].pc = "poll" /\ thr'[t].pc = "done")
          => (obj' = obj /\ slaves' = slaves /\ disk' = disk)]_vars
  /\ []C12_SnapshotShowsBusy

\* shutdown has returned and left a detached supervisor's worker in the list
\* while the job's process still exists
C12_Witness ==
  /\ ShutdownReturned
  /\ h.last.cmd = "shutdown"
  /\ \E i \in 1..Len(slaves) : \E t \in Threads :
        Detached(t) /\ thr[t].slave = slaves[i] /\ thr[t].pid \in alive

----------------------------------------------------------------------------
(* C13: when the shutdown handler has returned, should_stop is set, the    *)
(* state has been persisted and every supervisor thread has ended, so      *)
(* none can still change the state.                                        *)

C13_ShutdownStopsSupervisors ==
  (ShutdownReturned /\ h.last.cmd = "shutdown") =>
    /\ disk # <<>>
    /\ \A t \in Threads : Terminated(t)

----------------------------------------------------------------------------
(* C14: under fair scheduling, whenever the process of the job running on  *)
(* a busy worker of the workers list has exited while the daemon runs, the *)
(* worker eventually is idle or removed (or the daemon stops); also after  *)
(* a restart and after commands that returned an error.  A completion may  *)
(* wait for a command handler that holds the lock, so the worker is only   *)
(* required to be freed in behaviours where the handlers come to an end.   *)

DaemonRunning == ~should_stop /\ m.pc # "crashed"

ExitedOn(o) ==
  /\ DaemonRunning
  /\ o \in Workers
  /\ obj[o].status = "busy"
  /\ obj[o].running_job # <<>>
  /\ obj[o].running_job[1].pid \notin alive

HandlerRunning == m.pc \notin {"idle", "stopped", "crashed"}

Freed(o) ==
  \/ ~DaemonRunning
  \/ HandlerRunning
  \/ o \notin Workers
  \/ obj[o].status \in {"idle", "removed"}

C14_CompletionFrees == \A o \in 1..MaxObj : ExitedOn(o) ~> Freed(o)

----------------------------------------------------------------------------
(* C15: leftmost-idle wins.  In every step that launches jobs, the k-th    *)
(* job launched is the k-th entry of the waitlist and runs on the k-th     *)
(* idle worker of the workers list, in list order, of the state in which   *)
(* the assignment is made.                                                 *)

IdlePos == {i \in 1..Len(slaves) : obj[slaves[i]].status = "idle"}

C15_LeftmostIdleWins ==
  [][\A k \in 1..(h'.nrun - h.nrun) :
       \E i \in IdlePos :
         /\ Cardinality({j \in IdlePos : j < i}) = k - 1
         /\ k <= Len(job_waitlist)
         /\ obj'[slaves[i]].running_job # <<>>
         /\ obj'[slaves[i]].running_job[1].pid = h.nrun + k
         /\ obj'[slaves[i]].running_job[1].job = job_waitlist[k].id]_vars

----------------------------------------------------------------------------
(* C16: a call of schedule made with w waiting jobs and i idle workers     *)
(* launches exactly min(w, i) jobs, and when it ends the waitlist is empty *)
(* or no worker of the list is idle.                                       *)

Min(a, b) == IF a <= b THEN a ELSE b

\* the step in which the command loop's thread leaves schedule
MainScheduleEnds == m.pc = "sc_for" /\ m'.pc # "sc_for"

\* the step in which supervisor t runs schedule
SupScheduleEnds(t) == thr[t].pc = "c_sched" /\ thr'[t].pc # "c_sched"

Drained == Len(job_waitlist) = 0 \/ IdlePos = {}

C16_ScheduleDrains ==
  [][/\ MainScheduleEnds =>
          /\ Drained'
          /\ h'.nrun - h.last.n = Min(h.last.w, h.last.i)
     /\ \A t \in Threads : SupScheduleEnds(t) =>
          /\ Drained'
          /\ h'.nrun - h.nrun = Min(Len(job_waitlist), Cardinality(IdlePos))]_vars

----------------------------------------------------------------------------
(* C17: when an add_slave with a new address, handled while the waitlist   *)
(* is not empty, has returned, the new worker is in the workers list, busy *)
(* and running the job that was at the head of the waitlist, and the       *)
(* waitlist is shorter by exactly that job.                                *)

C17_AddSlaveTakesHead ==
  [][(/\ m.pc = "sc_for"
      /\ m'.pc = "reply"
      /\ h.last.cmd = "add_slave"
      /\ ~h.last.present
      /\ h.last.w > 0)
     => LET o == h.last.nobj + 1 IN
        /\ o \in 1..Len(slaves') /\ \E i \in 1..Len(slaves') : slaves'[i] = o
        /\ obj'[o].status = "busy"
        /\ obj'[o].running_job # <<>>
        /\ obj'[o].running_job[1].job = h.last.job
        /\ Len(job_waitlist') = h.last.w - 1]_vars

----------------------------------------------------------------------------
(* C18: the command loop survives every failed command: a handler          *)
(* exception is answered with one {err} response, a malformed record is    *)
(* skipped, and the loop has ended only if a shutdown command has been     *)
(* processed.                                                              *)

C18_LoopEndsOnlyOnShutdown ==
  /\ m.pc \in {"stopped", "crashed"} => should_stop
  /\ (m.pc = "reply" /\ h.last.cmd = "unknown") => resp.kind = "err"

----------------------------------------------------------------------------
(* C19: add_job appends one entry of its own to the waitlist, so that the  *)
(* same job submitted twice with no idle worker waits twice; remove_job    *)
(* removes exactly the earliest entry with equal argv and environment      *)
(* overrides and keeps the order of the others; with no such entry it      *)
(* answers {msg} and leaves the waitlist and the workers unchanged.        *)

SameJob(e, args, envs) == e.args = args /\ e.envs = envs

C19_RemoveJobRemovesEarliest ==
  [][/\ (m.pc = "idle" /\ m'.pc = "sc_for" /\ m'.cmd = "add_job") =>
          /\ Len(job_waitlist') = Len(job_waitlist) + 1
          /\ \A i \in 1..Len(job_waitlist) :
               job_waitlist'[i] = job_waitlist[i]
               /\ job_waitlist[i].id # job_waitlist'[Len(job_waitlist')].id
     /\ (m.pc = "idle" /\ m'.pc = "reply" /\ h'.last.cmd = "remove_job") =>
          LET hit == {i \in 1..Len(job_waitlist) :
                        SameJob(job_waitlist[i], h'.last.args, h'.last.envs)}
          IN /\ resp'.kind = "msg"
             /\ slaves' = slaves /\ obj' = obj
             /\ IF hit = {}
                THEN job_waitlist' = job_waitlist
                ELSE job_waitlist' =
                       RemoveAt(job_waitlist,
                                CHOOSE i \in hit : \A j \in hit : i <= j)]_vars

----------------------------------------------------------------------------
(* C20: the worker that schedule returns is the last one the call gave a   *)
(* job to, and no worker when the call gave no job; when add_job answers   *)
(* "Job is asigned to X" the submitted job is running on a worker of       *)
(* address X.                                                              *)

\* `return slave`: the loop variable of `for slave in self.slaves`
Returned == IF m.i > Len(slaves) THEN m.ret ELSE slaves[m.i]

\* the worker holding the latest launch
Holds(o, n) == obj'[o].running_job # <<>> /\ obj'[o].running_job[1].pid = n

C20_WitnessAllBusy ==
  /\ m.pc = "reply"
  /\ h.last.cmd = "add_job"
  /\ resp.text = "All slaves are busy. Job is added to the waiting list."
  /\ Len(slaves) > 0
  /\ \A o \in Workers : obj[o].status = "busy"

----------------------------------------------------------------------------
(* C21: work conservation: while no command handler is running, no         *)
(* supervisor is inside its completion path and shutdown has not been      *)
(* requested, it is never the case that a job waits while a worker of the  *)
(* workers list is idle.                                                   *)

C21_WorkConserving ==
  (/\ Quiescent
   /\ m.pc \in {"idle", "reply"}
   /\ ~should_stop)
  => ~(/\ Len(job_waitlist) > 0
       /\ \E o \in Workers : obj[o].status = "idle")

----------------------------------------------------------------------------
(* C22: failed commands are atomic: when add_job, add_slave, remove_job,   *)
(* remove_slave or load_status has ended with an {err} response and no     *)
(* supervisor has taken a step meanwhile, the waitlist and the workers     *)
(* (address, status, running_job, remove_after_finish, supervisor) are as  *)
(* the command found them, and equal to the snapshot on disk.              *)

Handlers == {"add_job", "add_slave", "remove_job", "remove_slave", "load_status"}

\* the step by which a handler returns with an exception
FailedCommand ==
  /\ m.pc # "reply"
  /\ m'.pc = "reply"
  /\ resp'.kind = "err"
  /\ h'.last.cmd \in Handlers
  /\ ~h'.disturbed

C22_FailedCommandAtomic ==
  [][FailedCommand =>
       /\ MemView(slaves', obj', job_waitlist') = h'.last.pre[1]
       /\ IF disk' = <<>> THEN slaves' = <<>> /\ job_waitlist' = <<>>
          ELSE Pickle(slaves', obj', job_waitlist') = disk'[1]]_vars

----------------------------------------------------------------------------
(* C23: job conservation: as long as no load_status has run, a job that    *)
(* add_job accepted is never waiting twice, never waiting while a worker   *)
(* runs it, never the running_job of two workers; it leaves the waitlist   *)
(* only by remove_job or by being launched on a worker, and it is launched *)
(* only out of the waitlist.                                               *)

WaitingAt(wl, j) == {i \in 1..Len(wl) : wl[i].id = j}

RunningAt(o, j) ==
  {k \in 1..Len(o) : o[k].running_job # <<>> /\ o[k].running_job[1].job = j}

C23_OnePlace ==
  ~h.loaded =>
    \A j \in 1..h.njobs :
       Cardinality(WaitingAt(job_waitlist, j)) + Cardinality(RunningAt(obj, j)) <= 1

C23_JobConservation ==
  /\ []C23_OnePlace
  /\ [][~h'.loaded =>
          \A j \in 1..h.njobs :
             /\ (WaitingAt(job_waitlist, j) # {} /\ WaitingAt(job_waitlist', j) = {})
                  => \/ j \in h'.removed
                     \/ RunningAt(obj', j) # {}
             /\ (RunningAt(obj', j) \ RunningAt(obj, j)) # {}
                  => WaitingAt(job_waitlist, j) # {}]_vars

====
